---- MODULE Spec2Model ----
(***************************************************************************)
(* A model of pkg/check/check.go: CheckTopic, the topic compliance check.  *)
(* One run of CheckTopic is a straight-line program; every statement group *)
(* of the function (a collaborator call, an append, a finalize, a return)  *)
(* is one action, and pc is the position of the run in the function.       *)
(***************************************************************************)
EXTENDS Integers, Sequences, FiniteSets, TLC

VARIABLES
    config,             \* the CheckConfig argument (check.go:14-21)
    pc,                 \* position of the run inside CheckTopic
    results,            \* the local TopicCheckResults (check.go:26)
    brokers,            \* len(brokers) of check.go:27
    err,                \* the local err of check.go:27 and check.go:77
    topicInfo,          \* the local topicInfo of check.go:77
    topicDoesNotExist,  \* the local of check.go:76
    settings,           \* the local settings copy of check.go:100
    retErr,             \* the error CheckTopic returned
    calls               \* the collaborator calls made so far, in order

vars == <<config, pc, results, brokers, err, topicInfo,
          topicDoesNotExist, settings, retErr, calls>>

----------------------------------------------------------------------------
(* Bounds of the model. *)

\* Spec: every declared setting, retention override and live topic up to
\* these bounds, with a few broker counts and declared counts.
MaxRetentionMinutes == 1
MaxTopicPartitions == 1

\* The largest number of partitions of a live topic in SpecTopic.
MaxLivePartitions == 3

\* SpecWide: every broker count and declared count up to these bounds, with a
\* few declared settings and live topics.
MaxBrokers == 6
MaxReplicationFactor == 6
MaxPartitions == 12

----------------------------------------------------------------------------
(* Names and error values. *)

CheckNameConfigCorrect == "ConfigCorrect"
CheckNameConfigsConsistent == "ConfigsConsistent"
CheckNameConfigSettingsCorrect == "ConfigSettingsCorrect"
CheckNameReplicationFactorCorrect == "ReplicationFactorCorrect"
CheckNamePartitionCountCorrect == "PartitionCountCorrect"
CheckNameThrottlesClear == "ThrottlesClear"
CheckNameReplicasInSync == "ReplicasInSync"
CheckNameLeadersCorrect == "LeadersCorrect"

CheckOrder ==
    <<CheckNameConfigCorrect, CheckNameConfigsConsistent,
      CheckNameConfigSettingsCorrect, CheckNameReplicationFactorCorrect,
      CheckNamePartitionCountCorrect, CheckNameThrottlesClear,
      CheckNameReplicasInSync, CheckNameLeadersCorrect>>

nil == "nil"
ErrTopicDoesNotExist == "ErrTopicDoesNotExist"
ErrGetBrokers == "ErrGetBrokers"
ErrGetTopic == "ErrGetTopic"
ErrValidate == "ErrValidate"
ErrCheckConsistency == "ErrCheckConsistency"
ErrConfigMapDiffs == "ErrConfigMapDiffs"

RetentionKey == "retention.ms"
CleanupPolicyKey == "cleanup.policy"
SettingKeys == {CleanupPolicyKey, RetentionKey}

\* Go's < on the setting keys ("cleanup.policy" < "retention.ms").
KeyRank == [k \in SettingKeys |-> IF k = CleanupPolicyKey THEN 1 ELSE 2]

----------------------------------------------------------------------------
(* Values. *)

\* A Go string holding a decimal number is the sequence of its digits.
RECURSIVE Itoa(_)
Itoa(n) == IF n < 10 THEN <<n>> ELSE Append(Itoa(n \div 10), n % 10)

\* A declared setting value (interface{}): an int or a string.
IntValue(n) == [kind |-> "int", val |-> n]
StrValue(s) == [kind |-> "string", val |-> s]

\* The string form under which a declared value is compared with the live one.
GetValueStr(v) == IF v.kind = "int" THEN Itoa(v.val) ELSE v.val

EmptyMap == [k \in {} |-> nil]

\* A map with one more (or one overwritten) entry: m[key] = value.
MapSet(m, key, value) ==
    [k \in (DOMAIN m) \cup {key} |-> IF k = key THEN value ELSE m[k]]

\* All maps from a subset of keys to the values allowed for each key.
RECURSIVE MapsOver(_, _)
MapsOver(keys, allowed) ==
    IF keys = {} THEN {EmptyMap}
    ELSE LET k == CHOOSE x \in keys : TRUE
             rest == MapsOver(keys \ {k}, allowed)
         IN  rest \cup {MapSet(m, k, v) : m \in rest, v \in allowed[k]}

\* The declared settings a run may be given.
DeclaredValues ==
    [k \in SettingKeys |->
        IF k = CleanupPolicyKey THEN {StrValue("delete")}
                                ELSE {IntValue(120000)}]

DeclaredSettings == MapsOver(SettingKeys, DeclaredValues)

\* The live config maps a topic of the cluster may report.
LiveValues ==
    [k \in SettingKeys |->
        IF k = CleanupPolicyKey THEN {"delete", "compact"}
                                ELSE {Itoa(60000), Itoa(120000)}]

LiveConfigs == MapsOver(SettingKeys, LiveValues)

\* Live metadata of a topic: its config map, its throttle state, its
\* partitions, and those of them that are out of sync or wrongly led.
TopicInfos(maxPartitions) ==
    UNION {
        {[Config |-> c, Throttled |-> t, Partitions |-> 1..n,
          OutOfSync |-> o, WrongLeader |-> w] :
            c \in LiveConfigs, t \in BOOLEAN,
            o \in SUBSET (1..n), w \in SUBSET (1..n)} :
        n \in 0..maxPartitions}

\* The zero value of admin.TopicInfo, which GetTopic returns with an error.
ZeroTopicInfo ==
    [Config |-> EmptyMap, Throttled |-> FALSE, Partitions |-> {},
     OutOfSync |-> {}, WrongLeader |-> {}]

\* The CheckConfig values a run may be given (check.go:14-21).
CheckConfigs(replicationFactors, partitions, declared, retentionMinutes) ==
    [CheckLeaders : BOOLEAN,
     ValidateOnly : BOOLEAN,
     ReplicationFactor : replicationFactors,
     Partitions : partitions,
     Settings : declared,
     RetentionMinutes : retentionMinutes]

----------------------------------------------------------------------------
(* The result log. *)

\* TopicCheckResults.AppendResult: a new entry, not yet passed, no message.
AppendResult(rs, name) ==
    Append(rs, [Name |-> name, Passed |-> FALSE, Message |-> <<>>])

\* TopicCheckResults.UpdateLastResult: overwrite the last entry's outcome.
UpdateLastResult(rs, ok, message) ==
    [rs EXCEPT ![Len(rs)] = [@ EXCEPT !.Passed = ok, !.Message = message]]

\* fmt.Sprintf: the format with its arguments filled in; the empty string
\* is the empty sequence.
Sprintf(format, args) == <<format>> \o args

\* One collaborator call and the error it returned.
Call(op, e) == [op |-> op, err |-> e]

----------------------------------------------------------------------------
(* The initial state: CheckTopic is entered. *)

InitLocals ==
    /\ pc = "GetBrokers"
    /\ results = <<>>
    /\ brokers = 0
    /\ err = nil
    /\ topicInfo = ZeroTopicInfo
    /\ topicDoesNotExist = FALSE
    /\ settings = EmptyMap
    /\ retErr = nil
    /\ calls = <<>>

Init ==
    /\ config \in CheckConfigs({1, 2}, {1, 3}, DeclaredSettings,
                               0..MaxRetentionMinutes)
    /\ InitLocals

InitWide ==
    /\ config \in CheckConfigs(0..MaxReplicationFactor, 0..MaxPartitions,
                               {MapSet(EmptyMap, CleanupPolicyKey, StrValue("delete"))},
                               {1})
    /\ InitLocals

\* One declared configuration per pair of flags, for the runs that vary the
\* partitions of the live topic.
InitTopic ==
    /\ config \in CheckConfigs({1}, {1}, {EmptyMap}, {0})
    /\ InitLocals

----------------------------------------------------------------------------
(* CheckTopic, statement group by statement group. *)

\* return results, e
Return(e) ==
    /\ retErr' = e
    /\ pc' = "done"

\* Mutant of GetBrokersOf: the error of the broker query is dropped and the
\* run goes on.
GetBrokersOf_ErrorDropped(counts) ==
    /\ pc = "GetBrokers"
    /\ \E e \in {nil, ErrGetBrokers}, n \in counts :
        /\ calls' = Append(calls, Call("GetBrokers", e))
        /\ err' = e
        /\ brokers' = IF e = nil THEN n ELSE 0
    /\ pc' = "AppendConfigCorrect"
    /\ UNCHANGED <<config, results, topicInfo, topicDoesNotExist,
                   settings, retErr>>

\* admin.Client.GetBrokers as CheckTopic sees it: an error, or as many
\* brokers as the cluster has.
GetBrokersResults(counts) ==
    {[n |-> 0, err |-> ErrGetBrokers]} \cup {[n |-> n, err |-> nil] : n \in counts}

\* check.go:26-30, over the clusters with one of these broker counts
GetBrokersOf(counts) ==
    /\ pc = "GetBrokers"
    /\ \E r \in GetBrokersResults(counts) :
        /\ calls' = Append(calls, Call("GetBrokers", r.err))
        /\ err' = r.err
        /\ brokers' = r.n
        /\ IF r.err # nil
           THEN Return(r.err)
           ELSE /\ pc' = "AppendConfigCorrect"
                /\ UNCHANGED retErr
    /\ UNCHANGED <<config, results, topicInfo, topicDoesNotExist,
                   settings>>

BrokerCounts == 0..2

GetBrokers == GetBrokersOf(BrokerCounts)

WideBrokerCounts == 0..MaxBrokers

GetBrokersWide == GetBrokersOf(WideBrokerCounts)

\* check.go:33-37
AppendConfigCorrect ==
    /\ pc = "AppendConfigCorrect"
    /\ results' = AppendResult(results, CheckNameConfigCorrect)
    /\ pc' = "Validate"
    /\ UNCHANGED <<config, brokers, err, topicInfo,
                   topicDoesNotExist, settings, retErr, calls>>

\* Mutant of Validate: a failed validation does not stop the run.
Validate_NoReturn ==
    /\ pc = "Validate"
    /\ \E e \in {nil, ErrValidate} :
        /\ calls' = Append(calls, Call("Validate", e))
        /\ IF e = nil
           THEN results' = UpdateLastResult(results, TRUE, <<>>)
           ELSE results' = UpdateLastResult(results, FALSE,
                        Sprintf("config validation error: %+v", <<e>>))
    /\ pc' = "AppendConfigsConsistent"
    /\ UNCHANGED <<config, brokers, err, topicInfo, topicDoesNotExist,
                   settings, retErr>>

\* check.go:38-47
Validate ==
    /\ pc = "Validate"
    /\ \E e \in {nil, ErrValidate} :
        /\ calls' = Append(calls, Call("Validate", e))
        /\ IF e = nil
           THEN /\ results' = UpdateLastResult(results, TRUE, <<>>)
                /\ pc' = "AppendConfigsConsistent"
                /\ UNCHANGED retErr
           ELSE /\ results' = UpdateLastResult(results, FALSE,
                        Sprintf("config validation error: %+v", <<e>>))
                /\ Return(nil)
    /\ UNCHANGED <<config, brokers, err, topicInfo,
                   topicDoesNotExist, settings>>

\* check.go:50-54
AppendConfigsConsistent ==
    /\ pc = "AppendConfigsConsistent"
    /\ results' = AppendResult(results, CheckNameConfigsConsistent)
    /\ pc' = "CheckConsistency"
    /\ UNCHANGED <<config, brokers, err, topicInfo,
                   topicDoesNotExist, settings, retErr, calls>>

\* Mutant of CheckConsistency: a failed consistency check does not stop the
\* run.
CheckConsistency_NoReturn ==
    /\ pc = "CheckConsistency"
    /\ \E e \in {nil, ErrCheckConsistency} :
        /\ calls' = Append(calls, Call("CheckConsistency", e))
        /\ IF e = nil
           THEN results' = UpdateLastResult(results, TRUE, <<>>)
           ELSE results' = UpdateLastResult(results, FALSE,
                        Sprintf("config consistency error error: %+v", <<e>>))
    /\ pc' = "ValidateOnly"
    /\ UNCHANGED <<config, brokers, err, topicInfo, topicDoesNotExist,
                   settings, retErr>>

\* Mutant of CheckConsistency: the consistency error is returned as the
\* error of CheckTopic.
CheckConsistency_ReturnsError ==
    /\ pc = "CheckConsistency"
    /\ \E e \in {nil, ErrCheckConsistency} :
        /\ calls' = Append(calls, Call("CheckConsistency", e))
        /\ IF e = nil
           THEN /\ results' = UpdateLastResult(results, TRUE, <<>>)
                /\ pc' = "ValidateOnly"
                /\ UNCHANGED retErr
           ELSE /\ results' = UpdateLastResult(results, FALSE,
                        Sprintf("config consistency error error: %+v", <<e>>))
                /\ Return(e)
    /\ UNCHANGED <<config, brokers, err, topicInfo, topicDoesNotExist,
                   settings>>

\* check.go:55-64
CheckConsistency ==
    /\ pc = "CheckConsistency"
    /\ \E e \in {nil, ErrCheckConsistency} :
        /\ calls' = Append(calls, Call("CheckConsistency", e))
        /\ IF e = nil
           THEN /\ results' = UpdateLastResult(results, TRUE, <<>>)
                /\ pc' = "ValidateOnly"
                /\ UNCHANGED retErr
           ELSE /\ results' = UpdateLastResult(results, FALSE,
                        Sprintf("config consistency error error: %+v", <<e>>))
                /\ Return(nil)
    /\ UNCHANGED <<config, brokers, err, topicInfo,
                   topicDoesNotExist, settings>>

\* Mutant of ValidateOnly: the flag is not looked at.
ValidateOnly_Ignored ==
    /\ pc = "ValidateOnly"
    /\ pc' = "GetTopic"
    /\ UNCHANGED <<config, results, brokers, err, topicInfo,
                   topicDoesNotExist, settings, retErr, calls>>

\* check.go:66-68
ValidateOnly ==
    /\ pc = "ValidateOnly"
    /\ IF config.ValidateOnly
       THEN Return(nil)
       ELSE /\ pc' = "GetTopic"
            /\ UNCHANGED retErr
    /\ UNCHANGED <<config, results, brokers, err, topicInfo,
                   topicDoesNotExist, settings, calls>>

\* admin.Client.GetTopic as CheckTopic sees it: the live metadata of the
\* topic, or the zero TopicInfo with the not-found error or another error.
GetTopicResults(infos) ==
    {[info |-> ZeroTopicInfo, err |-> e] : e \in {ErrTopicDoesNotExist, ErrGetTopic}}
    \cup {[info |-> i, err |-> nil] : i \in infos}

\* check.go:76-85, over the clusters whose topic, if any, is one of these
GetTopicOf(infos) ==
    /\ pc = "GetTopic"
    /\ \E r \in GetTopicResults(infos) :
        /\ calls' = Append(calls, Call("GetTopic", r.err))
        /\ topicInfo' = r.info
        /\ err' = r.err
        /\ topicDoesNotExist' = (r.err # nil /\ r.err = ErrTopicDoesNotExist)
    /\ pc' = "SettingsBranch"
    /\ UNCHANGED <<config, results, brokers, settings, retErr>>

LiveTopicInfos == TopicInfos(MaxTopicPartitions)

GetTopic == GetTopicOf(LiveTopicInfos)

\* A topic of one partition whose live config is empty or is cleanup.policy
\* delete with a retention of one minute.
WideTopicInfos ==
    {[Config |-> c, Throttled |-> t, Partitions |-> {1},
      OutOfSync |-> o, WrongLeader |-> w] :
        c \in {EmptyMap,
               MapSet(MapSet(EmptyMap, CleanupPolicyKey, "delete"),
                      RetentionKey, Itoa(60000))},
        t \in BOOLEAN, o \in SUBSET {1}, w \in SUBSET {1}}

GetTopicWide == GetTopicOf(WideTopicInfos)

\* A topic of up to MaxLivePartitions partitions with an empty live config,
\* any subset of them out of sync and any subset with a wrong leader.
PartitionedTopicInfos ==
    UNION {
        {[Config |-> EmptyMap, Throttled |-> t, Partitions |-> 1..n,
          OutOfSync |-> o, WrongLeader |-> w] :
            t \in BOOLEAN, o \in SUBSET (1..n), w \in SUBSET (1..n)} :
        n \in 0..MaxLivePartitions}

GetTopicPartitioned == GetTopicOf(PartitionedTopicInfos)

\* Mutant of SettingsBranch: the settings check is not skipped for a topic
\* that does not exist.
SettingsBranch_NoSkip ==
    /\ pc = "SettingsBranch"
    /\ results' = AppendResult(results, CheckNameConfigSettingsCorrect)
    /\ pc' = "ConfigSettings"
    /\ UNCHANGED <<config, brokers, err, topicInfo, topicDoesNotExist,
                   settings, retErr, calls>>

\* check.go:92-98
SettingsBranch ==
    /\ pc = "SettingsBranch"
    /\ IF ~topicDoesNotExist
       THEN /\ results' = AppendResult(results, CheckNameConfigSettingsCorrect)
            /\ pc' = "ConfigSettings"
       ELSE /\ pc' = "AppendReplicationFactor"
            /\ UNCHANGED results
    /\ UNCHANGED <<config, brokers, err, topicInfo,
                   topicDoesNotExist, settings, retErr, calls>>

\* Mutant of EffectiveSettings: the retention is converted as if it were
\* given in seconds.
EffectiveSettings_Seconds(declared, retentionMinutes) ==
    IF retentionMinutes > 0
    THEN MapSet(declared, RetentionKey, IntValue(retentionMinutes * 1000))
    ELSE declared

\* check.go:100-103: the declared settings, copied, with the retention
\* override.
EffectiveSettings(declared, retentionMinutes) ==
    IF retentionMinutes > 0
    THEN MapSet(declared, RetentionKey, IntValue(retentionMinutes * 60000))
    ELSE declared

\* TopicSettings.ConfigMapDiffs: the keys of desired whose live value
\* differs, and the keys of desired the live map lacks.
DiffKeys(desired, live) ==
    {k \in DOMAIN desired :
        k \in DOMAIN live /\ GetValueStr(desired[k]) # live[k]}

MissingKeys(desired, live) == {k \in DOMAIN desired : k \notin DOMAIN live}

\* The orders in which a Go map range may deliver the keys of a set.
Orders(S) ==
    {f \in [1..Cardinality(S) -> S] : \A x \in S : \E i \in DOMAIN f : f[i] = x}

\* sort.Slice(combinedKeys, less) with Go's < on strings (check.go:121-123).
RECURSIVE SortKeys(_)
SortKeys(keys) ==
    IF keys = <<>> THEN <<>>
    ELSE LET least == CHOOSE i \in DOMAIN keys :
                        \A j \in DOMAIN keys : KeyRank[keys[i]] <= KeyRank[keys[j]]
             rest == [j \in 1..(Len(keys) - 1) |->
                        IF j < least THEN keys[j] ELSE keys[j + 1]]
         IN  <<keys[least]>> \o SortKeys(rest)

\* check.go:113-132: the failure message of ConfigSettingsCorrect.
SettingsMessage(diffKeys, missingKeys) ==
    LET combinedKeys == SortKeys(diffKeys \o missingKeys)
    IN  Sprintf("%d keys have different values between cluster and topic config: %v",
                <<Len(combinedKeys), combinedKeys>>)

\* Mutant of ConfigSettings: the override is written into the declared map
\* itself instead of a copy of it.
ConfigSettings_NoCopy ==
    /\ pc = "ConfigSettings"
    /\ settings' = EffectiveSettings(config.Settings, config.RetentionMinutes)
    /\ config' = [config EXCEPT !.Settings = settings']
    /\ \E e \in {nil, ErrConfigMapDiffs} :
        /\ calls' = Append(calls, Call("ConfigMapDiffs", e))
        /\ IF e # nil
           THEN /\ Return(e)
                /\ UNCHANGED results
           ELSE /\ \E diffKeys \in Orders(DiffKeys(settings', topicInfo.Config)),
                      missingKeys \in Orders(MissingKeys(settings', topicInfo.Config)) :
                    IF Len(diffKeys) = 0 /\ Len(missingKeys) = 0
                    THEN results' = UpdateLastResult(results, TRUE, <<>>)
                    ELSE results' = UpdateLastResult(results, FALSE,
                                        SettingsMessage(diffKeys, missingKeys))
                /\ pc' = "AppendReplicationFactor"
                /\ UNCHANGED retErr
    /\ UNCHANGED <<brokers, err, topicInfo, topicDoesNotExist>>

\* Mutant of ConfigSettings: a ConfigMapDiffs error is dropped and the entry
\* is left as appended.
ConfigSettings_ErrorDropped ==
    /\ pc = "ConfigSettings"
    /\ settings' = EffectiveSettings(config.Settings, config.RetentionMinutes)
    /\ \E e \in {nil, ErrConfigMapDiffs} :
        /\ calls' = Append(calls, Call("ConfigMapDiffs", e))
        /\ IF e # nil
           THEN UNCHANGED results
           ELSE \E diffKeys \in Orders(DiffKeys(settings', topicInfo.Config)),
                   missingKeys \in Orders(MissingKeys(settings', topicInfo.Config)) :
                    IF Len(diffKeys) = 0 /\ Len(missingKeys) = 0
                    THEN results' = UpdateLastResult(results, TRUE, <<>>)
                    ELSE results' = UpdateLastResult(results, FALSE,
                                        SettingsMessage(diffKeys, missingKeys))
        /\ pc' = "AppendReplicationFactor"
        /\ UNCHANGED retErr
    /\ UNCHANGED <<config, brokers, err, topicInfo, topicDoesNotExist>>

\* check.go:100-133
ConfigSettings ==
    /\ pc = "ConfigSettings"
    /\ settings' = EffectiveSettings(config.Settings, config.RetentionMinutes)
    /\ \E e \in {nil, ErrConfigMapDiffs} :
        /\ calls' = Append(calls, Call("ConfigMapDiffs", e))
        /\ IF e # nil
           THEN /\ Return(e)
                /\ UNCHANGED results
           ELSE /\ \E diffKeys \in Orders(DiffKeys(settings', topicInfo.Config)),
                      missingKeys \in Orders(MissingKeys(settings', topicInfo.Config)) :
                    IF Len(diffKeys) = 0 /\ Len(missingKeys) = 0
                    THEN results' = UpdateLastResult(results, TRUE, <<>>)
                    ELSE results' = UpdateLastResult(results, FALSE,
                                        SettingsMessage(diffKeys, missingKeys))
                /\ pc' = "AppendReplicationFactor"
                /\ UNCHANGED retErr
    /\ UNCHANGED <<config, brokers, err, topicInfo, topicDoesNotExist>>

\* check.go:136-140
AppendReplicationFactor ==
    /\ pc = "AppendReplicationFactor"
    /\ results' = AppendResult(results, CheckNameReplicationFactorCorrect)
    /\ pc' = "ReplicationFactor"
    /\ UNCHANGED <<config, brokers, err, topicInfo,
                   topicDoesNotExist, settings, retErr, calls>>

\* Go's a % b for b # 0: the remainder has the sign of a.
GoRem(a, b) ==
    LET abs(x) == IF x < 0 THEN -x ELSE x
    IN  IF a < 0 THEN -(abs(a) % abs(b)) ELSE a % abs(b)

\* Mutant of ReplicationFactorOk: the operands of % are swapped.
ReplicationFactorOk_Swapped(replicationFactor, numBrokers) ==
    replicationFactor # 0 /\ GoRem(numBrokers, replicationFactor) = 0

\* check.go:142
ReplicationFactorOk(replicationFactor, numBrokers) ==
    GoRem(replicationFactor, numBrokers) = 0

\* Mutant of PartitionCountOk: no exception for a single partition.
PartitionCountOk_NoSingle(partitions, numBrokers) ==
    GoRem(partitions, numBrokers) = 0

\* check.go:161
PartitionCountOk(partitions, numBrokers) ==
    GoRem(partitions, numBrokers) = 0 \/ partitions = 1

\* A statement that divides by len(brokers) panics when there are none.
Panic ==
    /\ pc' = "panic"
    /\ UNCHANGED results

\* check.go:142-153
ReplicationFactor ==
    /\ pc = "ReplicationFactor"
    /\ IF brokers = 0
       THEN Panic
       ELSE /\ IF ReplicationFactorOk(config.ReplicationFactor, brokers)
               THEN results' = UpdateLastResult(results, TRUE, <<>>)
               ELSE results' = UpdateLastResult(results, FALSE,
                        Sprintf("len(ReplicationFactor) %d must be a multiple of len(broker) %d",
                                <<config.ReplicationFactor, brokers>>))
            /\ pc' = "AppendPartitionCount"
    /\ UNCHANGED <<config, brokers, err, topicInfo,
                   topicDoesNotExist, settings, retErr, calls>>

\* Mutant of AppendPartitionCount: the new entry takes the place of the last
\* one.
AppendPartitionCount_Overwrites ==
    /\ pc = "AppendPartitionCount"
    /\ results' = AppendResult(SubSeq(results, 1, Len(results) - 1),
                               CheckNamePartitionCountCorrect)
    /\ pc' = "PartitionCount"
    /\ UNCHANGED <<config, brokers, err, topicInfo,
                   topicDoesNotExist, settings, retErr, calls>>

\* check.go:156-160
AppendPartitionCount ==
    /\ pc = "AppendPartitionCount"
    /\ results' = AppendResult(results, CheckNamePartitionCountCorrect)
    /\ pc' = "PartitionCount"
    /\ UNCHANGED <<config, brokers, err, topicInfo,
                   topicDoesNotExist, settings, retErr, calls>>

\* Mutant of PartitionCount: a failed check ends the run, as the two static
\* checks do.
PartitionCount_StopsOnFailure ==
    /\ pc = "PartitionCount"
    /\ IF brokers = 0
       THEN Panic /\ UNCHANGED retErr
       ELSE IF PartitionCountOk(config.Partitions, brokers)
            THEN /\ results' = UpdateLastResult(results, TRUE, <<>>)
                 /\ pc' = "AppendThrottlesClear"
                 /\ UNCHANGED retErr
            ELSE /\ results' = UpdateLastResult(results, FALSE,
                        Sprintf("len(Partitions) %d must be a multiple of len(broker) %d",
                                <<config.Partitions, brokers>>))
                 /\ Return(nil)
    /\ UNCHANGED <<config, brokers, err, topicInfo,
                   topicDoesNotExist, settings, calls>>

\* check.go:161-172
PartitionCount ==
    /\ pc = "PartitionCount"
    /\ IF brokers = 0
       THEN Panic
       ELSE /\ IF PartitionCountOk(config.Partitions, brokers)
               THEN results' = UpdateLastResult(results, TRUE, <<>>)
               ELSE results' = UpdateLastResult(results, FALSE,
                        Sprintf("len(Partitions) %d must be a multiple of len(broker) %d",
                                <<config.Partitions, brokers>>))
            /\ pc' = "AppendThrottlesClear"
    /\ UNCHANGED <<config, brokers, err, topicInfo,
                   topicDoesNotExist, settings, retErr, calls>>

\* Mutant of AppendThrottlesClear: the checks of the live topic are skipped
\* when the topic does not exist.
AppendThrottlesClear_SkippedWhenMissing ==
    /\ pc = "AppendThrottlesClear"
    /\ IF topicDoesNotExist
       THEN /\ pc' = "Return"
            /\ UNCHANGED results
       ELSE /\ results' = AppendResult(results, CheckNameThrottlesClear)
            /\ pc' = "ThrottlesClear"
    /\ UNCHANGED <<config, brokers, err, topicInfo,
                   topicDoesNotExist, settings, retErr, calls>>

\* check.go:175-179
AppendThrottlesClear ==
    /\ pc = "AppendThrottlesClear"
    /\ results' = AppendResult(results, CheckNameThrottlesClear)
    /\ pc' = "ThrottlesClear"
    /\ UNCHANGED <<config, brokers, err, topicInfo,
                   topicDoesNotExist, settings, retErr, calls>>

\* TopicInfo.IsThrottled
IsThrottled(info) == info.Throttled

\* Mutant of ThrottlesClear: the failure carries no message.
ThrottlesClear_NoMessage ==
    /\ pc = "ThrottlesClear"
    /\ results' = UpdateLastResult(results, ~IsThrottled(topicInfo), <<>>)
    /\ pc' = "AppendReplicasInSync"
    /\ UNCHANGED <<config, brokers, err, topicInfo, topicDoesNotExist,
                   settings, retErr, calls>>

\* check.go:180-187
ThrottlesClear ==
    /\ pc = "ThrottlesClear"
    /\ IF ~IsThrottled(topicInfo)
       THEN results' = UpdateLastResult(results, TRUE, <<>>)
       ELSE results' = UpdateLastResult(results, FALSE,
                            Sprintf("topic has existing throttles", <<>>))
    /\ pc' = "AppendReplicasInSync"
    /\ UNCHANGED <<config, brokers, err, topicInfo,
                   topicDoesNotExist, settings, retErr, calls>>

\* check.go:190-194
AppendReplicasInSync ==
    /\ pc = "AppendReplicasInSync"
    /\ results' = AppendResult(results, CheckNameReplicasInSync)
    /\ pc' = "ReplicasInSync"
    /\ UNCHANGED <<config, brokers, err, topicInfo,
                   topicDoesNotExist, settings, retErr, calls>>

\* TopicInfo.OutOfSyncPartitions(nil)
OutOfSyncPartitions(info) == info.OutOfSync

\* TopicInfo.WrongLeaderPartitions(nil)
WrongLeaderPartitions(info) == info.WrongLeader

\* Mutant of ReplicasInSync: the entry is updated only when the check fails.
ReplicasInSync_NoUpdateOnPass ==
    /\ pc = "ReplicasInSync"
    /\ LET outOfSyncPartitions == OutOfSyncPartitions(topicInfo) IN
       IF Cardinality(outOfSyncPartitions) = 0
       THEN UNCHANGED results
       ELSE results' = UpdateLastResult(results, FALSE,
                Sprintf("%d/%d partitions have out-of-sync replicas",
                        <<Cardinality(outOfSyncPartitions),
                          Cardinality(topicInfo.Partitions)>>))
    /\ pc' = "CheckLeaders"
    /\ UNCHANGED <<config, brokers, err, topicInfo, topicDoesNotExist,
                   settings, retErr, calls>>

\* check.go:195-208
ReplicasInSync ==
    /\ pc = "ReplicasInSync"
    /\ LET outOfSyncPartitions == OutOfSyncPartitions(topicInfo) IN
       IF Cardinality(outOfSyncPartitions) = 0
       THEN results' = UpdateLastResult(results, TRUE, <<>>)
       ELSE results' = UpdateLastResult(results, FALSE,
                Sprintf("%d/%d partitions have out-of-sync replicas",
                        <<Cardinality(outOfSyncPartitions),
                          Cardinality(topicInfo.Partitions)>>))
    /\ pc' = "CheckLeaders"
    /\ UNCHANGED <<config, brokers, err, topicInfo,
                   topicDoesNotExist, settings, retErr, calls>>

\* check.go:211-216
\* Mutant of CheckLeaders: the flag is not consulted.
CheckLeaders_Always ==
    /\ pc = "CheckLeaders"
    /\ results' = AppendResult(results, CheckNameLeadersCorrect)
    /\ pc' = "LeadersCorrect"
    /\ UNCHANGED <<config, brokers, err, topicInfo,
                   topicDoesNotExist, settings, retErr, calls>>

CheckLeaders ==
    /\ pc = "CheckLeaders"
    /\ IF config.CheckLeaders
       THEN /\ results' = AppendResult(results, CheckNameLeadersCorrect)
            /\ pc' = "LeadersCorrect"
       ELSE /\ pc' = "Return"
            /\ UNCHANGED results
    /\ UNCHANGED <<config, brokers, err, topicInfo,
                   topicDoesNotExist, settings, retErr, calls>>

\* Mutant of LeadersCorrect: the partitions counted are the out-of-sync
\* ones.
LeadersCorrect_CountsOutOfSync ==
    /\ pc = "LeadersCorrect"
    /\ LET wrongLeaderPartitions == OutOfSyncPartitions(topicInfo) IN
       IF Cardinality(wrongLeaderPartitions) = 0
       THEN results' = UpdateLastResult(results, TRUE, <<>>)
       ELSE results' = UpdateLastResult(results, FALSE,
                Sprintf("%d/%d partitions have wrong leaders",
                        <<Cardinality(wrongLeaderPartitions),
                          Cardinality(topicInfo.Partitions)>>))
    /\ pc' = "Return"
    /\ UNCHANGED <<config, brokers, err, topicInfo,
                   topicDoesNotExist, settings, retErr, calls>>

\* check.go:217-230
LeadersCorrect ==
    /\ pc = "LeadersCorrect"
    /\ LET wrongLeaderPartitions == WrongLeaderPartitions(topicInfo) IN
       IF Cardinality(wrongLeaderPartitions) = 0
       THEN results' = UpdateLastResult(results, TRUE, <<>>)
       ELSE results' = UpdateLastResult(results, FALSE,
                Sprintf("%d/%d partitions have wrong leaders",
                        <<Cardinality(wrongLeaderPartitions),
                          Cardinality(topicInfo.Partitions)>>))
    /\ pc' = "Return"
    /\ UNCHANGED <<config, brokers, err, topicInfo,
                   topicDoesNotExist, settings, retErr, calls>>

\* check.go:233
ReturnResults ==
    /\ pc = "Return"
    /\ Return(nil)
    /\ UNCHANGED <<config, results, brokers, err, topicInfo,
                   topicDoesNotExist, settings, calls>>

Next ==
    \/ GetBrokers
    \/ AppendConfigCorrect
    \/ Validate
    \/ AppendConfigsConsistent
    \/ CheckConsistency
    \/ ValidateOnly
    \/ GetTopic
    \/ SettingsBranch
    \/ ConfigSettings
    \/ AppendReplicationFactor
    \/ ReplicationFactor
    \/ AppendPartitionCount
    \/ PartitionCount
    \/ AppendThrottlesClear
    \/ ThrottlesClear
    \/ AppendReplicasInSync
    \/ ReplicasInSync
    \/ CheckLeaders
    \/ LeadersCorrect
    \/ ReturnResults

NextWide ==
    \/ GetBrokersWide
    \/ AppendConfigCorrect
    \/ Validate
    \/ AppendConfigsConsistent
    \/ CheckConsistency
    \/ ValidateOnly
    \/ GetTopicWide
    \/ SettingsBranch
    \/ ConfigSettings
    \/ AppendReplicationFactor
    \/ ReplicationFactor
    \/ AppendPartitionCount
    \/ PartitionCount
    \/ AppendThrottlesClear
    \/ ThrottlesClear
    \/ AppendReplicasInSync
    \/ ReplicasInSync
    \/ CheckLeaders
    \/ LeadersCorrect
    \/ ReturnResults

Spec == Init /\ [][Next]_vars

SpecWide == InitWide /\ [][NextWide]_vars

NextTopic ==
    \/ GetBrokers
    \/ AppendConfigCorrect
    \/ Validate
    \/ AppendConfigsConsistent
    \/ CheckConsistency
    \/ ValidateOnly
    \/ GetTopicPartitioned
    \/ SettingsBranch
    \/ ConfigSettings
    \/ AppendReplicationFactor
    \/ ReplicationFactor
    \/ AppendPartitionCount
    \/ PartitionCount
    \/ AppendThrottlesClear
    \/ ThrottlesClear
    \/ AppendReplicasInSync
    \/ ReplicasInSync
    \/ CheckLeaders
    \/ LeadersCorrect
    \/ ReturnResults

SpecTopic == InitTopic /\ [][NextTopic]_vars

Returned == pc = "done"

----------------------------------------------------------------------------
(* Vocabulary of the properties. *)

\* The names of the report's entries, in order.
ReportNames == [i \in DOMAIN results |-> results[i].Name]

HasEntry(name) == \E i \in DOMAIN results : results[i].Name = name

\* The entry of that name (there is at most one).
Entry(name) == results[CHOOSE i \in DOMAIN results : results[i].Name = name]

\* The CheckResult invariant: passed entries carry no message, failed
\* entries carry one.
Finalized(r) ==
    /\ r.Passed => Len(r.Message) = 0
    /\ ~r.Passed => Len(r.Message) > 0

\* Appended and not yet finalized.
Pending(r) == ~r.Passed /\ Len(r.Message) = 0

Called(op) == \E i \in DOMAIN calls : calls[i].op = op

\* The collaborator was called and returned this error (nil: none).
CalledWith(op, e) == \E i \in DOMAIN calls : calls[i] = Call(op, e)

\* The positions at which the last entry is appended and not yet finalized.
FinalizeSteps ==
    {"Validate", "CheckConsistency", "ConfigSettings", "ReplicationFactor",
     "PartitionCount", "ThrottlesClear", "ReplicasInSync", "LeadersCorrect"}

\* The entry of that name has been appended and its finalize step has run.
Evaluated(name) ==
    \E i \in DOMAIN results :
        /\ results[i].Name = name
        /\ i < Len(results) \/ pc \notin FinalizeSteps \cup {"panic"}

----------------------------------------------------------------------------
(* C1: when GetTopic fails with an error other than not-found, CheckTopic  *)
(* returns at once: that error, with the report of exactly ConfigCorrect   *)
(* and ConfigsConsistent, both passed, and nothing appended after them.    *)
C1_TopicQueryErrorAborts ==
    CalledWith("GetTopic", ErrGetTopic) =>
        /\ pc = "done"
        /\ retErr = ErrGetTopic
        /\ ReportNames = <<CheckNameConfigCorrect, CheckNameConfigsConsistent>>
        /\ \A i \in DOMAIN results : results[i].Passed

----------------------------------------------------------------------------
(* C2: the end-to-end run with 6 brokers, replication factor 3, 12         *)
(* partitions, an existing healthy topic and matching settings.            *)

\* The run of the scenario has returned.
EndToEnd ==
    /\ Returned
    /\ brokers = 6
    /\ config.ReplicationFactor = 3
    /\ config.Partitions = 12
    /\ CalledWith("Validate", nil)
    /\ CalledWith("CheckConsistency", nil)
    /\ ~config.ValidateOnly
    /\ CalledWith("GetTopic", nil)
    /\ CalledWith("ConfigMapDiffs", nil)
    /\ ~topicInfo.Throttled
    /\ topicInfo.OutOfSync = {}
    /\ \A k \in DOMAIN settings :
        k \in DOMAIN topicInfo.Config
        /\ topicInfo.Config[k] = GetValueStr(settings[k])

EndToEndNames ==
    <<CheckNameConfigCorrect, CheckNameConfigsConsistent,
      CheckNameConfigSettingsCorrect, CheckNameReplicationFactorCorrect,
      CheckNamePartitionCountCorrect, CheckNameThrottlesClear,
      CheckNameReplicasInSync>>

\* C2 as claimed: in the end-to-end run (the topic having no wrongly led
\* partition either) every entry is passed, the report has 6 entries (7
\* with checkLeaders) and the error is nil.
C2_EndToEndAllPass ==
    (EndToEnd /\ topicInfo.WrongLeader = {}) =>
        /\ retErr = nil
        /\ Len(results) = IF config.CheckLeaders THEN 7 ELSE 6
        /\ \A i \in DOMAIN results : results[i].Passed

\* C2 as amended: in the end-to-end run the error is nil, the report has
\* the 7 entries ConfigCorrect .. ReplicasInSync (8 with checkLeaders, the
\* last being LeadersCorrect), ReplicationFactorCorrect is failed with a
\* message (3 is no multiple of 6) and the six other entries up to
\* ReplicasInSync are passed.
C2_EndToEndReplicationFactorFails ==
    EndToEnd =>
        /\ retErr = nil
        /\ Len(results) = IF config.CheckLeaders THEN 8 ELSE 7
        /\ \A i \in 1..7 :
            /\ results[i].Name = CheckOrder[i]
            /\ results[i].Passed <=>
                    results[i].Name # CheckNameReplicationFactorCorrect
        /\ Len(Entry(CheckNameReplicationFactorCorrect).Message) > 0
        /\ config.CheckLeaders =>
            /\ results[8].Name = CheckNameLeadersCorrect
            /\ results[8].Passed <=> topicInfo.WrongLeader = {}

C2_Witness == EndToEnd /\ config.CheckLeaders /\ topicInfo.WrongLeader = {}

----------------------------------------------------------------------------
(* C3: once evaluated, ReplicationFactorCorrect is passed iff the declared *)
(* replication factor r has r mod b = 0 for the b >= 1 brokers, and        *)
(* PartitionCountCorrect is passed iff the declared partition count p has  *)
(* p mod b = 0 or p = 1.                                                   *)
C3_DivisibilityRules ==
    /\ Evaluated(CheckNameReplicationFactorCorrect) =>
        /\ brokers >= 1
        /\ Entry(CheckNameReplicationFactorCorrect).Passed <=>
                config.ReplicationFactor % brokers = 0
    /\ Evaluated(CheckNamePartitionCountCorrect) =>
        /\ brokers >= 1
        /\ Entry(CheckNamePartitionCountCorrect).Passed <=>
                (config.Partitions % brokers = 0 \/ config.Partitions = 1)

\* One partition on four brokers: passed although 4 does not divide 1.
C3_Witness ==
    /\ Evaluated(CheckNamePartitionCountCorrect)
    /\ brokers = 4
    /\ config.Partitions = 1
    /\ Entry(CheckNamePartitionCountCorrect).Passed
    /\ ~Entry(CheckNameReplicationFactorCorrect).Passed

----------------------------------------------------------------------------
(* C4: when the declared config fails validation, CheckTopic returns at    *)
(* once with a nil error and the report of one entry, ConfigCorrect,       *)
(* failed with a message; CheckConsistency and GetTopic are not called.    *)
C4_ValidationFailureStops ==
    CalledWith("Validate", ErrValidate) =>
        /\ pc = "done"
        /\ retErr = nil
        /\ Len(results) = 1
        /\ results[1].Name = CheckNameConfigCorrect
        /\ ~results[1].Passed
        /\ Len(results[1].Message) > 0
        /\ ~Called("CheckConsistency")
        /\ ~Called("GetTopic")

C4_Witness == Returned /\ CalledWith("Validate", ErrValidate)

----------------------------------------------------------------------------
(* C5: when the declared config passes validation and fails the           *)
(* consistency check, CheckTopic returns at once with a nil error and the  *)
(* report of two entries: ConfigCorrect passed, ConfigsConsistent failed   *)
(* with a message.                                                         *)
C5_ConsistencyFailureStops ==
    (CalledWith("Validate", nil) /\ CalledWith("CheckConsistency", ErrCheckConsistency)) =>
        /\ pc = "done"
        /\ retErr = nil
        /\ ReportNames = <<CheckNameConfigCorrect, CheckNameConfigsConsistent>>
        /\ results[1].Passed
        /\ Len(results[1].Message) = 0
        /\ ~results[2].Passed
        /\ Len(results[2].Message) > 0
        /\ ~Called("GetTopic")

C5_Witness ==
    /\ Returned
    /\ CalledWith("Validate", nil)
    /\ CalledWith("CheckConsistency", ErrCheckConsistency)

----------------------------------------------------------------------------
(* C6: with validateOnly set and both static checks passed, CheckTopic     *)
(* returns a nil error and the report of two passed entries, and GetTopic  *)
(* is never called in a run with validateOnly set.                         *)
C6_ValidateOnlyStops ==
    /\ config.ValidateOnly => ~Called("GetTopic")
    /\ (/\ config.ValidateOnly
        /\ CalledWith("Validate", nil)
        /\ CalledWith("CheckConsistency", nil)
        /\ pc # "ValidateOnly") =>
            /\ pc = "done"
            /\ retErr = nil
            /\ ReportNames = <<CheckNameConfigCorrect, CheckNameConfigsConsistent>>
            /\ \A i \in DOMAIN results :
                results[i].Passed /\ Len(results[i].Message) = 0

C6_Witness ==
    /\ Returned
    /\ config.ValidateOnly
    /\ CalledWith("CheckConsistency", nil)

----------------------------------------------------------------------------
(* C7: when GetTopic reports not-found, no ConfigSettingsCorrect entry is  *)
(* ever appended, and the returned report holds ReplicationFactorCorrect   *)
(* and PartitionCountCorrect, evaluated from the declared values and the   *)
(* broker count, with a nil error.                                         *)
C7_NotFoundSkipsSettings ==
    CalledWith("GetTopic", ErrTopicDoesNotExist) =>
        /\ ~HasEntry(CheckNameConfigSettingsCorrect)
        /\ Returned =>
            /\ retErr = nil
            /\ brokers >= 1
            /\ HasEntry(CheckNameReplicationFactorCorrect)
            /\ HasEntry(CheckNamePartitionCountCorrect)
            /\ Finalized(Entry(CheckNameReplicationFactorCorrect))
            /\ Finalized(Entry(CheckNamePartitionCountCorrect))
            /\ Entry(CheckNameReplicationFactorCorrect).Passed <=>
                    config.ReplicationFactor % brokers = 0
            /\ Entry(CheckNamePartitionCountCorrect).Passed <=>
                    (config.Partitions % brokers = 0 \/ config.Partitions = 1)

C7_Witness ==
    /\ Returned
    /\ CalledWith("GetTopic", ErrTopicDoesNotExist)
    /\ ~Entry(CheckNamePartitionCountCorrect).Passed

----------------------------------------------------------------------------
(* C8: the entries of a returned report and the CheckResult invariant.     *)

\* C8 as claimed: every entry of every returned report, with or without an
\* error, is passed without a message or failed with one.
C8_ReturnedEntriesFinalized ==
    Returned => \A i \in DOMAIN results : Finalized(results[i])

\* C8 as amended: every entry of a report returned with a nil error is
\* passed without a message or failed with one; a report returned with an
\* error is empty (the broker query failed) or ends with ConfigSettingsCorrect
\* still pending (the settings diff failed), its earlier entries being
\* passed without a message.
C8_ReturnedEntriesFinalizedUnlessDiffError ==
    Returned =>
        /\ retErr = nil => \A i \in DOMAIN results : Finalized(results[i])
        /\ retErr # nil =>
            \/ retErr = ErrGetBrokers /\ Len(results) = 0
            \/ /\ retErr = ErrConfigMapDiffs
               /\ ReportNames = <<CheckNameConfigCorrect, CheckNameConfigsConsistent,
                                  CheckNameConfigSettingsCorrect>>
               /\ Pending(results[3])
               /\ \A i \in 1..2 : results[i].Passed /\ Len(results[i].Message) = 0

\* A report returned with a nil error that holds failed and passed entries.
C8_Witness ==
    /\ Returned
    /\ retErr = nil
    /\ HasEntry(CheckNameThrottlesClear)
    /\ ~Entry(CheckNameThrottlesClear).Passed
    /\ HasEntry(CheckNameConfigSettingsCorrect)
    /\ ~Entry(CheckNameConfigSettingsCorrect).Passed
    /\ Entry(CheckNameReplicasInSync).Passed

----------------------------------------------------------------------------
(* C9: when GetBrokers fails, CheckTopic returns at once with that error   *)
(* and an empty report; no other collaborator is called.                   *)
C9_BrokerQueryErrorAborts ==
    CalledWith("GetBrokers", ErrGetBrokers) =>
        /\ pc = "done"
        /\ retErr = ErrGetBrokers
        /\ Len(results) = 0
        /\ Len(calls) = 1

C9_Witness == Returned /\ CalledWith("GetBrokers", ErrGetBrokers)

----------------------------------------------------------------------------
(* C10: when the broker query succeeds, the topic query succeeds or        *)
(* reports not-found and the settings diff computes, CheckTopic returns a  *)
(* nil error whichever checks fail, each failure being recorded in its     *)
(* entry as passed = false with a message.                                 *)

\* No broker-query, topic-query or settings-diff error occurred in the run.
NoInfrastructureError ==
    /\ CalledWith("GetBrokers", nil)
    /\ ~CalledWith("GetTopic", ErrGetTopic)
    /\ ~CalledWith("ConfigMapDiffs", ErrConfigMapDiffs)

\* C10: a run that returns without an infrastructure error returns nil, and
\* each of its entries is passed without a message or failed with one.
C10_CheckFailuresAreNotErrors ==
    (Returned /\ NoInfrastructureError) =>
        /\ retErr = nil
        /\ \A i \in DOMAIN results : Finalized(results[i])

\* Every live check of a run has failed, and the run returned.
C10_Witness ==
    /\ Returned
    /\ NoInfrastructureError
    /\ Len(results) = 8
    /\ \A i \in 3..8 : ~results[i].Passed

----------------------------------------------------------------------------
(* C11: for a topic that exists, ConfigSettingsCorrect compares the live   *)
(* config with the declared settings in which the retention key is         *)
(* overwritten by retentionMinutes * 60000 iff retentionMinutes > 0. It is *)
(* passed iff no declared key differs and none is missing; if failed, its  *)
(* message gives the number of keys that differ or are missing, and those  *)
(* keys in ascending order.                                                *)

\* The settings the topic is meant to have.
DesiredSettings ==
    [k \in (DOMAIN config.Settings)
            \cup (IF config.RetentionMinutes > 0 THEN {RetentionKey} ELSE {}) |->
        IF k = RetentionKey /\ config.RetentionMinutes > 0
        THEN IntValue(config.RetentionMinutes * 60000)
        ELSE config.Settings[k]]

\* The desired keys whose live value differs, and those the live config lacks.
DifferingKeys ==
    {k \in DOMAIN DesiredSettings :
        k \in DOMAIN topicInfo.Config
        /\ topicInfo.Config[k] # GetValueStr(DesiredSettings[k])}

LackingKeys == {k \in DOMAIN DesiredSettings : k \notin DOMAIN topicInfo.Config}

\* The settings of an existing topic were compared, without an error.
SettingsCompared ==
    /\ CalledWith("GetTopic", nil)
    /\ CalledWith("ConfigMapDiffs", nil)

\* C11: the entry of ConfigSettingsCorrect after the comparison.
C11_SettingsDiff ==
    SettingsCompared =>
        LET entry == Entry(CheckNameConfigSettingsCorrect)
            keys == DifferingKeys \cup LackingKeys
        IN  /\ settings = DesiredSettings
            /\ entry.Passed <=> keys = {}
            /\ entry.Passed => Len(entry.Message) = 0
            /\ ~entry.Passed =>
                /\ Len(entry.Message) = 3
                /\ entry.Message[2] = Cardinality(keys)
                /\ Len(entry.Message[3]) = Cardinality(keys)
                /\ {entry.Message[3][i] : i \in DOMAIN entry.Message[3]} = keys
                /\ \A i, j \in DOMAIN entry.Message[3] :
                    i < j => KeyRank[entry.Message[3][i]] < KeyRank[entry.Message[3][j]]

\* A retention of one minute against a live retention.ms of 120000: failed,
\* reporting the one key retention.ms.
C11_Witness ==
    /\ SettingsCompared
    /\ config.RetentionMinutes = 1
    /\ RetentionKey \in DOMAIN topicInfo.Config
    /\ topicInfo.Config[RetentionKey] = Itoa(120000)
    /\ ~Entry(CheckNameConfigSettingsCorrect).Passed
    /\ Entry(CheckNameConfigSettingsCorrect).Message[2] = 1
    /\ Entry(CheckNameConfigSettingsCorrect).Message[3] = <<RetentionKey>>

----------------------------------------------------------------------------
(* C12: the append/finalize protocol of the report.                        *)

\* The step appends one entry.
IsAppend == Len(results') = Len(results) + 1

\* The step finalizes the last entry.
IsFinalize == Len(results') = Len(results) /\ results' # results

\* An append happens only when the report is empty or its last entry is
\* finalized, and adds one pending entry.
AppendInOrder ==
    IsAppend =>
        /\ Len(results) > 0 => ~Pending(results[Len(results)])
        /\ Pending(results'[Len(results')])
        /\ \A i \in DOMAIN results : results'[i] = results[i]

\* A finalize happens only on a report whose last entry is pending, and
\* finalizes that entry.
FinalizeInOrder ==
    IsFinalize =>
        /\ Len(results) > 0
        /\ Pending(results[Len(results)])
        /\ Finalized(results'[Len(results)])
        /\ ~Pending(results'[Len(results)])
        /\ results'[Len(results)].Name = results[Len(results)].Name
        /\ \A i \in 1..(Len(results) - 1) : results'[i] = results[i]

\* C12: every append is of one pending entry onto a report with no pending
\* entry, every finalize is of the pending last entry, a finalize step is
\* only reached with a pending last entry, and a report returned with a nil
\* error ends with a finalized entry.
C12_AppendFinalizeProtocol ==
    /\ [][AppendInOrder /\ FinalizeInOrder
          /\ (IsAppend \/ IsFinalize \/ results' = results)]_vars
    /\ [](pc \in FinalizeSteps =>
            Len(results) > 0 /\ Pending(results[Len(results)]))
    /\ []((Returned /\ retErr = nil) =>
            Len(results) > 0 /\ Finalized(results[Len(results)])
            /\ ~Pending(results[Len(results)]))

\* All eight entries were appended and finalized in turn.
C12_Witness ==
    /\ Returned
    /\ retErr = nil
    /\ Len(results) = 8
    /\ \A i \in DOMAIN results : ~Pending(results[i])

----------------------------------------------------------------------------
(* C13: the order of the entries of the report.                            *)

\* The position of a check name in the fixed order.
OrderRank(name) == CHOOSE i \in DOMAIN CheckOrder : CheckOrder[i] = name

\* The names of the report are names of the fixed order, in that order,
\* each at most once.
InCheckOrder ==
    /\ \A i \in DOMAIN results :
          \E j \in DOMAIN CheckOrder : CheckOrder[j] = results[i].Name
    /\ \A i \in 1..(Len(results) - 1) :
          OrderRank(results[i].Name) < OrderRank(results[i + 1].Name)

\* The run went through its last check before the leaders check: the
\* ReplicasInSync entry is in the returned report.
ReachedFinalStep == Returned /\ HasEntry(CheckNameReplicasInSync)

\* C13: the names of the report always follow the fixed order without
\* repetition; an entry beyond the second exists only if ConfigCorrect and
\* ConfigsConsistent are the first two entries and both passed; and a
\* returned report holds LeadersCorrect exactly when checkLeaders is set and
\* the run reached its final step.
C13_ReportOrder ==
    /\ InCheckOrder
    /\ Len(results) > 2 =>
          /\ results[1].Name = CheckNameConfigCorrect
          /\ results[1].Passed
          /\ results[2].Name = CheckNameConfigsConsistent
          /\ results[2].Passed
    /\ Returned =>
          (HasEntry(CheckNameLeadersCorrect)
              <=> (config.CheckLeaders /\ ReachedFinalStep))

\* A returned report that skips ConfigSettingsCorrect and ends with
\* LeadersCorrect.
C13_Witness ==
    /\ Returned
    /\ config.CheckLeaders
    /\ ReportNames = <<CheckNameConfigCorrect, CheckNameConfigsConsistent,
                       CheckNameReplicationFactorCorrect,
                       CheckNamePartitionCountCorrect,
                       CheckNameThrottlesClear, CheckNameReplicasInSync,
                       CheckNameLeadersCorrect>>

----------------------------------------------------------------------------
(* C14: only the two static checks short-circuit.                          *)

\* The step after the finalize of each check that does not short-circuit.
StepAfter ==
    [p \in {"ConfigSettings", "ReplicationFactor", "PartitionCount",
            "ThrottlesClear", "ReplicasInSync"} |->
        CASE p = "ConfigSettings" -> "AppendReplicationFactor"
          [] p = "ReplicationFactor" -> "AppendPartitionCount"
          [] p = "PartitionCount" -> "AppendThrottlesClear"
          [] p = "ThrottlesClear" -> "AppendReplicasInSync"
          [] p = "ReplicasInSync" -> "CheckLeaders"]

\* Both static checks passed and validateOnly is not set.
StaticChecksPassed ==
    /\ Len(results) >= 2
    /\ results[1].Passed
    /\ results[2].Passed
    /\ ~config.ValidateOnly

\* The names a complete report holds after the two static checks.
LaterChecks ==
    {CheckNameReplicationFactorCorrect, CheckNamePartitionCountCorrect,
     CheckNameThrottlesClear, CheckNameReplicasInSync}
        \cup (IF topicDoesNotExist THEN {} ELSE {CheckNameConfigSettingsCorrect})
        \cup (IF config.CheckLeaders THEN {CheckNameLeadersCorrect} ELSE {})

\* C14: a step that finalizes ConfigSettingsCorrect, ReplicationFactorCorrect,
\* PartitionCountCorrect, ThrottlesClear or ReplicasInSync as failed goes on
\* to the next check instead of returning, and a run that passed both static
\* checks without validateOnly and returns a nil error returns every later
\* check, finalized.
C14_OnlyStaticChecksShortCircuit ==
    /\ [][(pc \in DOMAIN StepAfter /\ IsFinalize
             /\ ~results'[Len(results')].Passed)
           => (StaticChecksPassed /\ pc' = StepAfter[pc])]_vars
    /\ []((Returned /\ retErr = nil /\ StaticChecksPassed) =>
            /\ \A name \in LaterChecks : HasEntry(name)
            /\ \A i \in DOMAIN results : Finalized(results[i]))

\* All five checks failed and the run still returned the eight entries.
C14_Witness ==
    /\ Returned
    /\ retErr = nil
    /\ Len(results) = 8
    /\ \A i \in 3..7 : ~results[i].Passed

----------------------------------------------------------------------------
(* C15: a settings-diff error aborts the run.                              *)

SettingsDiffFailed == CalledWith("ConfigMapDiffs", ErrConfigMapDiffs)

\* C15: once ConfigMapDiffs has returned an error the run has returned that
\* error, and the report is ConfigCorrect passed, ConfigsConsistent passed
\* and ConfigSettingsCorrect, with no ReplicationFactorCorrect or later
\* entry.
C15_SettingsDiffErrorAborts ==
    SettingsDiffFailed =>
        /\ Returned
        /\ retErr = ErrConfigMapDiffs
        /\ ReportNames = <<CheckNameConfigCorrect, CheckNameConfigsConsistent,
                           CheckNameConfigSettingsCorrect>>
        /\ results[1].Passed
        /\ results[2].Passed

\* The diff of an existing topic failed, with checkLeaders set.
C15_Witness ==
    /\ SettingsDiffFailed
    /\ CalledWith("GetTopic", nil)
    /\ config.CheckLeaders
    /\ Returned

----------------------------------------------------------------------------
(* C16: the checks of the live topic when the topic does not exist.        *)

\* The entry of that name is in the report and passed with no message.
PassedEntry(name) ==
    /\ HasEntry(name)
    /\ Entry(name).Passed
    /\ Len(Entry(name).Message) = 0

\* The entries every run returns for a missing topic, apart from their
\* number.
MissingTopicReport ==
    /\ retErr = nil
    /\ PassedEntry(CheckNameThrottlesClear)
    /\ PassedEntry(CheckNameReplicasInSync)
    /\ config.CheckLeaders => PassedEntry(CheckNameLeadersCorrect)
    /\ ~config.CheckLeaders => ~HasEntry(CheckNameLeadersCorrect)

\* C16 as stated: a run that found the topic missing and returned has a nil
\* error and a report of five entries, six with checkLeaders, in which
\* ThrottlesClear, ReplicasInSync and, with checkLeaders, LeadersCorrect
\* passed.
C16_MissingTopicFiveEntries ==
    (Returned /\ topicDoesNotExist) =>
        /\ MissingTopicReport
        /\ Len(results) = (IF config.CheckLeaders THEN 6 ELSE 5)

\* C16 amended: the report of such a run has six entries, seven with
\* checkLeaders (the two static checks, ReplicationFactorCorrect,
\* PartitionCountCorrect, ThrottlesClear, ReplicasInSync and LeadersCorrect),
\* and ThrottlesClear, ReplicasInSync and LeadersCorrect passed.
C16_MissingTopicPassesLiveChecks ==
    (Returned /\ topicDoesNotExist) =>
        /\ MissingTopicReport
        /\ Len(results) = (IF config.CheckLeaders THEN 7 ELSE 6)
        /\ ~HasEntry(CheckNameConfigSettingsCorrect)
        /\ HasEntry(CheckNameReplicationFactorCorrect)
        /\ HasEntry(CheckNamePartitionCountCorrect)

\* The topic is missing, checkLeaders is set and the seven entries came back.
C16_Witness ==
    /\ Returned
    /\ topicDoesNotExist
    /\ CalledWith("GetTopic", ErrTopicDoesNotExist)
    /\ config.CheckLeaders
    /\ Len(results) = 7
    /\ PassedEntry(CheckNameLeadersCorrect)

----------------------------------------------------------------------------
(* C17: the two aggregate checks of the partitions.                        *)

\* The verdict and message the entry of that name must carry for a set of
\* anomalous partitions of the live topic.
AggregateVerdict(name, anomalous, format) ==
    /\ Entry(name).Passed <=> anomalous = {}
    /\ Entry(name).Passed => Len(Entry(name).Message) = 0
    /\ ~Entry(name).Passed =>
          Entry(name).Message =
              <<format, Cardinality(anomalous),
                Cardinality(topicInfo.Partitions)>>

\* C17: once evaluated, ReplicasInSync passed exactly when no partition is
\* out of sync and LeadersCorrect passed exactly when no partition has a
\* wrong leader; a failed entry reports the number of such partitions and
\* the number of partitions of the live topic.
C17_AggregatePartitionChecks ==
    /\ Evaluated(CheckNameReplicasInSync) =>
          AggregateVerdict(CheckNameReplicasInSync, topicInfo.OutOfSync,
                           "%d/%d partitions have out-of-sync replicas")
    /\ Evaluated(CheckNameLeadersCorrect) =>
          AggregateVerdict(CheckNameLeadersCorrect, topicInfo.WrongLeader,
                           "%d/%d partitions have wrong leaders")

\* One of three partitions is out of sync and two have a wrong leader.
C17_Witness ==
    /\ Returned
    /\ Cardinality(topicInfo.Partitions) = 3
    /\ Cardinality(topicInfo.OutOfSync) = 1
    /\ Cardinality(topicInfo.WrongLeader) = 2
    /\ Evaluated(CheckNameReplicasInSync)
    /\ Evaluated(CheckNameLeadersCorrect)
    /\ Entry(CheckNameReplicasInSync).Message[2] = 1
    /\ Entry(CheckNameLeadersCorrect).Message[2] = 2
    /\ Entry(CheckNameLeadersCorrect).Message[3] = 3

----------------------------------------------------------------------------
(* C18: the report only grows.                                             *)

\* C18: no step shortens the report, and a step changes an entry already in
\* the report only if that entry is the last one and is pending; finalized
\* entries keep their name, verdict and message.
C18_ReportOnlyGrows ==
    [][/\ Len(results') >= Len(results)
       /\ \A i \in DOMAIN results :
             /\ Finalized(results[i]) => results'[i] = results[i]
             /\ results'[i] # results[i] =>
                   (i = Len(results) /\ Pending(results[i]))]_vars

\* Seven finalized entries, one of them failed, and a pending eighth.
C18_Witness ==
    /\ pc = "LeadersCorrect"
    /\ Len(results) = 8
    /\ Pending(results[8])
    /\ \A i \in 1..7 : Finalized(results[i])
    /\ ~results[3].Passed

----------------------------------------------------------------------------
(* C19: the calls CheckTopic makes and what it leaves alone.               *)

\* The queries of the cluster.
ClusterOps == {"GetBrokers", "GetTopic"}

\* The computations on the declared configuration, which do not reach the
\* cluster.
LocalOps == {"Validate", "CheckConsistency", "ConfigMapDiffs"}

\* How many times the operation was called.
CallCount(op) == Cardinality({i \in DOMAIN calls : calls[i].op = op})

\* C19: GetBrokers is the first call and is made once; GetTopic is made at
\* most once, after GetBrokers succeeded, both static checks passed and
\* validateOnly was found unset; no other operation reaches the cluster; and
\* no step changes the declared configuration, the retention override going
\* to the copy held in settings.
C19_ReadOnlyQueriesInOrder ==
    /\ [](/\ pc = "GetBrokers" => calls = <<>>
          /\ pc # "GetBrokers" =>
                (Len(calls) >= 1 /\ calls[1].op = "GetBrokers")
          /\ CallCount("GetBrokers") <= 1
          /\ CallCount("GetTopic") <= 1
          /\ \A i \in DOMAIN calls : calls[i].op \in ClusterOps \cup LocalOps
          /\ Called("GetTopic") =>
                (CalledWith("GetBrokers", nil) /\ StaticChecksPassed)
          /\ Called("ConfigMapDiffs") =>
                settings = EffectiveSettings(config.Settings,
                                             config.RetentionMinutes))
    /\ [][config' = config]_vars

\* The retention override was applied for the diff while the declared map
\* still has no retention.ms.
C19_Witness ==
    /\ Returned
    /\ CalledWith("GetTopic", nil)
    /\ Called("ConfigMapDiffs")
    /\ config.RetentionMinutes = 1
    /\ RetentionKey \notin DOMAIN config.Settings
    /\ settings[RetentionKey] = IntValue(60000)
    /\ CallCount("GetBrokers") = 1

----------------------------------------------------------------------------
(* C20: every run returns.                                                 *)

\* The run ended in the runtime panic of an integer division by zero.
Crashed == pc = "panic"

\* C20: no run crashes, and a run that has not returned can take a step:
\* every run ends by returning a report and an error.
C20_AlwaysReturns ==
    /\ ~Crashed
    /\ Returned \/ ENABLED Next

====
